---- MODULE Spec2Model ----
(***************************************************************************)
(* MatplotlibVersionedWriter (kedro.extras.datasets.matplotlib): a writer  *)
(* that encodes plots and stores them through an fsspec filesystem, with   *)
(* optional versioning.  The filesystem is a map from paths (sequences of  *)
(* path segments) to file contents; two writer instances constructed from  *)
(* the same arguments share it.                                            *)
(***************************************************************************)
EXTENDS Integers, Sequences, FiniteSets, TLC

VARIABLES
    ctor,           \* the arguments the writers were constructed with
    self,           \* self[w]: the fields __init__ sets on writer w
    version_cache,  \* version_cache[w]: the cached generated save version
    files,          \* the filesystem: path -> content, for the stored files
    clock,          \* the latest time generate_timestamp has read
    pc,             \* pc[w]: position of writer w's current call
    op,             \* op[w]: the public operation of the current call
    data,           \* data[w]: the payload of the current save
    idx,            \* idx[w]: loop position in the payload (1-based)
    path,           \* path[w]: full_key_path of the current element
    buf,            \* buf[w]: bytes_buffer of the current element
    handle,         \* handle[w]: the open write handle, <<>> when none
    result,         \* result[w]: what the call returned or raised
    written,        \* written[w]: paths whose write completed in this call
    inval,          \* inval[w]: paths passed to invalidate_cache in this call
    gen,            \* gen[w]: save versions generated in this call
    files0,         \* files0[w]: the filesystem when the call began
    cache0,         \* cache0[w]: version_cache[w] when the call began
    calls           \* number of public calls made so far

vars == <<ctor, self, version_cache, files, clock, pc, op, data, idx, path,
          buf, handle, result, written, inval, gen, files0, cache0, calls>>

(***************************************************************************)
(* Bounds of the model.                                                    *)
(***************************************************************************)
MaxLen == 2      \* longest list payload
MaxClock == 1    \* the latest time a timestamp is generated at
MaxCalls == 2    \* public calls per behaviour

Writers == {"w1", "w2"}
Plots == {"p1", "p2"}
PlotNames == {"blue", "red"}

None == "None"
NoMap == <<>>                       \* the empty mapping {}
Absent == <<>>                      \* an argument that is None
Some(x) == <<x>>                    \* an argument that is supplied
IsNone(a) == a = <<>>
Val(a) == a[1]

Update(d, m) == [k \in DOMAIN d \cup DOMAIN m |-> IF k \in DOMAIN m THEN m[k] ELSE d[k]]
Pop(d, key) == [k \in DOMAIN d \ {key} |-> d[k]]
SetDefault(d, key, v) == IF key \in DOMAIN d THEN d ELSE Update(d, [k \in {key} |-> v])
Last(s) == s[Len(s)]
Front(s) == SubSeq(s, 1, Len(s) - 1)
IsPrefix(s, t) == Len(s) <= Len(t) /\ SubSeq(t, 1, Len(s)) = s

(***************************************************************************)
(* Constructor arguments (the values the tests construct writers with).    *)
(***************************************************************************)
FULL_PATH == <<"s3://", "test_bucket", "matplotlib">>
CREDENTIALS == [k \in {"client_kwargs"} |-> [j \in {"aws_access_key_id"} |-> "testing"]]
DEFAULT_SAVE_ARGS == NoMap
Protocols == {"s3://", "gcs://", "http://", "https://"}

FsArgsChoices ==
    { Absent,
      Some([k \in {"open_args_save"} |->
               [j \in {"mode", "compression"} |-> IF j = "mode" THEN "w" ELSE "gzip"]]),
      Some([k \in {"s3_additional_kwargs", "open_args_save"} |->
               IF k = "open_args_save"
               THEN [j \in {"compression"} |-> "gzip"]
               ELSE [j \in {"ServerSideEncryption"} |-> "AES256"]]) }

SaveArgsChoices ==
    { Absent,
      Some([k \in {"k1", "index"} |-> IF k = "k1" THEN "v1" ELSE "value"]),
      Some([k \in {"multiFile"} |-> "True"]) }

VersionChoices ==
    { Absent,
      Some([load |-> None, save |-> None]),
      Some([load |-> None, save |-> "v1"]) }

\* kedro.io.core.get_protocol_and_path: split "<protocol>://<path>"
get_protocol_and_path(filepath) ==
    IF Len(filepath) > 0 /\ Head(filepath) \in Protocols
    THEN [protocol |-> CASE Head(filepath) = "s3://" -> "s3"
                         [] Head(filepath) = "gcs://" -> "gcs"
                         [] Head(filepath) = "http://" -> "http"
                         [] Head(filepath) = "https://" -> "https",
          path |-> Tail(filepath)]
    ELSE [protocol |-> "file", path |-> filepath]

\* kedro.io.core.get_filepath_str: the path the filesystem is addressed with
get_filepath_str(p, protocol) ==
    IF protocol \in {"http", "https"} THEN <<protocol \o "://">> \o p ELSE p

\* __init__ with the mode assigned instead of defaulted
__init__mode_overwritten(filepath, fs_args, credentials, save_args, layer, version) ==
    LET _fs_args0 == IF IsNone(fs_args) THEN NoMap ELSE Val(fs_args)
        popped == IF "open_args_save" \in DOMAIN _fs_args0
                  THEN _fs_args0["open_args_save"] ELSE NoMap
        _fs_args == Pop(_fs_args0, "open_args_save")
        pp == get_protocol_and_path(filepath)
    IN  [ _fs_args |-> _fs_args,
          _fs_open_args_save |-> Update(popped, [k \in {"mode"} |-> "wb"]),
          _layer |-> layer,
          _protocol |-> pp.protocol,
          _fs |-> [protocol |-> pp.protocol,
                   kwargs |-> Update(IF IsNone(credentials) THEN NoMap ELSE Val(credentials),
                                     _fs_args)],
          _filepath |-> pp.path,
          _version |-> version,
          _save_args |-> IF IsNone(save_args) THEN DEFAULT_SAVE_ARGS
                         ELSE Update(DEFAULT_SAVE_ARGS, Val(save_args)) ]

\* MatplotlibVersionedWriter.__init__
__init__(filepath, fs_args, credentials, save_args, layer, version) ==
    LET _credentials == IF IsNone(credentials) THEN NoMap ELSE Val(credentials)
        _fs_args0 == IF IsNone(fs_args) THEN NoMap ELSE Val(fs_args)
        popped == IF "open_args_save" \in DOMAIN _fs_args0
                  THEN _fs_args0["open_args_save"] ELSE NoMap
        _fs_args == Pop(_fs_args0, "open_args_save")
        _fs_open_args_save == SetDefault(popped, "mode", "wb")
        pp == get_protocol_and_path(filepath)
    IN  [ _fs_args |-> _fs_args,
          _fs_open_args_save |-> _fs_open_args_save,
          _layer |-> layer,
          _protocol |-> pp.protocol,
          _fs |-> [protocol |-> pp.protocol, kwargs |-> Update(_credentials, _fs_args)],
          _filepath |-> pp.path,
          _version |-> version,
          _save_args |-> IF IsNone(save_args) THEN DEFAULT_SAVE_ARGS
                         ELSE Update(DEFAULT_SAVE_ARGS, Val(save_args)) ]

\* dict.get(key) followed by Python's truth test
Truthy(m, key) == key \in DOMAIN m /\ m[key] \notin {"False", "", None}

(***************************************************************************)
(* The filesystem (fsspec) and the plot encoder (matplotlib savefig).      *)
(***************************************************************************)
\* fs.exists(path): a stored file, or a directory (prefix) of a stored file
fs_exists(fs, p) == \E f \in DOMAIN fs : IsPrefix(p, f)

\* the bytes savefig(bytes_buffer, **save_args) produces for a plot
savefig(plot, save_args) == [plot |-> plot, args |-> save_args]

\* a handle closed without a completed write commits no bytes
EmptyBytes == [plot |-> None, args |-> NoMap]

Put(fs, p, content) == [q \in DOMAIN fs \cup {p} |-> IF q = p THEN content ELSE fs[q]]

(***************************************************************************)
(* Versioning (AbstractVersionedDataSet).                                  *)
(***************************************************************************)
\* kedro.io.core.generate_timestamp
generate_timestamp(now) == "t" \o ToString(now)

\* AbstractVersionedDataSet.resolve_save_version: the explicit save version,
\* else the cached generated one, generated on first use
resolve_save_version(s, cache, now) ==
    IF IsNone(s._version)
    THEN [version |-> None, cache |-> cache, generated |-> 0]
    ELSE IF Val(s._version).save # None
    THEN [version |-> Val(s._version).save, cache |-> cache, generated |-> 0]
    ELSE IF cache # None
    THEN [version |-> cache, cache |-> cache, generated |-> 0]
    ELSE [version |-> generate_timestamp(now), cache |-> generate_timestamp(now),
          generated |-> 1]

\* AbstractVersionedDataSet._get_versioned_path: <parent>/<version>/<filename>
_get_versioned_path(filepath, version) ==
    Front(filepath) \o <<version, Last(filepath)>>

\* _get_save_path without the existence check
_get_save_path_unchecked(s, cache, now, fs) ==
    IF IsNone(s._version)
    THEN [raises |-> FALSE, path |-> s._filepath, cache |-> cache, generated |-> 0]
    ELSE LET r == resolve_save_version(s, cache, now)
         IN  [raises |-> FALSE, path |-> _get_versioned_path(s._filepath, r.version),
              cache |-> r.cache, generated |-> r.generated]

\* MatplotlibVersionedWriter._get_save_path: the path to write under, or the
\* "must not exist" error
_get_save_path(s, cache, now, fs) ==
    IF IsNone(s._version)
    THEN [raises |-> FALSE, path |-> s._filepath, cache |-> cache, generated |-> 0]
    ELSE LET r == resolve_save_version(s, cache, now)
             versioned_path == _get_versioned_path(s._filepath, r.version)
         IN  [raises |-> fs_exists(fs, versioned_path) /\ ~Truthy(s._save_args, "multiFile"),
              path |-> versioned_path, cache |-> r.cache, generated |-> r.generated]

(***************************************************************************)
(* Payloads: a single plot, a list of plots, a mapping name -> plot (in    *)
(* insertion order); neighbouring figures of a payload differ.             *)
(***************************************************************************)
SeqsUpTo(S, n) == UNION {[1..k -> S] : k \in 0..n}
\* the names of a mapping are distinct and inserted in COLOUR_LIST's order
Ordered(s) == \A i, j \in 1..Len(s) : i < j => (s[i] = "blue" /\ s[j] = "red")

\* n figures that alternate between the two plots, beginning with first
PlotSeq(first, n) ==
    [i \in 1..n |-> IF i % 2 = 1 THEN first ELSE CHOOSE p \in Plots : p # first]

Payloads ==
    {[shape |-> "single", plots |-> <<p>>, names |-> <<>>] : p \in Plots}
    \cup {[shape |-> "list", plots |-> PlotSeq(p, n), names |-> <<>>] :
            p \in Plots, n \in 0..MaxLen}
    \cup {[shape |-> "dict", plots |-> PlotSeq("p1", Len(ns)), names |-> ns] :
            ns \in {x \in SeqsUpTo(PlotNames, MaxLen) : Ordered(x)}}

NoData == [shape |-> "none", plots |-> <<>>, names |-> <<>>]

\* the number of _save_to_fs calls _save makes for a payload
NumElements(d) == Len(d.plots)

\* full_key_path with the mapping branch joining onto the declared path
full_key_path_unversioned_dict(s, d, i, base) ==
    CASE d.shape = "list" ->
            Append(get_filepath_str(base, s._protocol), ToString(i - 1) \o ".png")
      [] d.shape = "dict" ->
            Append(get_filepath_str(s._filepath, s._protocol), d.names[i])
      [] OTHER -> get_filepath_str(base, s._protocol)

\* full_key_path with the list files numbered from 1
full_key_path_one_based(s, d, i, base) ==
    CASE d.shape = "list" ->
            Append(get_filepath_str(base, s._protocol), ToString(i) \o ".png")
      [] d.shape = "dict" ->
            Append(get_filepath_str(base, s._protocol), d.names[i])
      [] OTHER -> get_filepath_str(base, s._protocol)

\* the full_key_path _save builds for element i (1-based) under base
full_key_path(s, d, i, base) ==
    CASE d.shape = "list" ->
            Append(get_filepath_str(base, s._protocol), ToString(i - 1) \o ".png")
      [] d.shape = "dict" ->
            Append(get_filepath_str(base, s._protocol), d.names[i])
      [] OTHER -> get_filepath_str(base, s._protocol)

(***************************************************************************)
(* Results of a call.                                                      *)
(***************************************************************************)
Ok == "ok"
MustNotExist == "DataSetError: Save path must not exist if versioning is enabled"
LoadingNotSupported == "DataSetError: Loading not supported for MatplotlibVersionedWriter"
BackendFailure == "DataSetError: Failed while saving data to data set"

(***************************************************************************)
(* Initial state: both writers constructed from the same arguments, on an  *)
(* empty filesystem.                                                       *)
(***************************************************************************)
InitWith(arguments) ==
    /\ ctor \in arguments
    /\ self = [w \in Writers |->
                 __init__(ctor.filepath, ctor.fs_args, ctor.credentials,
                          ctor.save_args, ctor.layer, ctor.version)]
    /\ version_cache = [w \in Writers |-> None]
    /\ files = <<>>
    /\ clock = 0
    /\ pc = [w \in Writers |-> "idle"]
    /\ op = [w \in Writers |-> "none"]
    /\ data = [w \in Writers |-> NoData]
    /\ idx = [w \in Writers |-> 0]
    /\ path = [w \in Writers |-> <<>>]
    /\ buf = [w \in Writers |-> EmptyBytes]
    /\ handle = [w \in Writers |-> <<>>]
    /\ result = [w \in Writers |-> "none"]
    /\ written = [w \in Writers |-> <<>>]
    /\ inval = [w \in Writers |-> <<>>]
    /\ gen = [w \in Writers |-> 0]
    /\ files0 = [w \in Writers |-> <<>>]
    /\ cache0 = [w \in Writers |-> None]
    /\ calls = 0

\* writers of the test bucket path, with and without versioning and multiFile
Init ==
    InitWith([filepath : {FULL_PATH}, fs_args : {Absent},
              credentials : {Some(CREDENTIALS)},
              save_args : {Absent, Some([k \in {"multiFile"} |-> "True"])},
              layer : {None}, version : VersionChoices])

\* a public call starts when no call is in progress (single-threaded use)
CanBegin(w) == calls < MaxCalls /\ \A v \in Writers : pc[v] = "idle"

\* entry of a public call: the call-local state
Enter(w, o, d, next) ==
    /\ op' = [op EXCEPT ![w] = o]
    /\ data' = [data EXCEPT ![w] = d]
    /\ idx' = [idx EXCEPT ![w] = 1]
    /\ pc' = [pc EXCEPT ![w] = next]
    /\ files0' = [files0 EXCEPT ![w] = files]
    /\ cache0' = [cache0 EXCEPT ![w] = version_cache[w]]
    /\ calls' = calls + 1

Raise(w, e) ==
    /\ result' = [result EXCEPT ![w] = e]
    /\ pc' = [pc EXCEPT ![w] = "done"]

(***************************************************************************)
(* save(data): _save, one step per statement that touches the filesystem.  *)
(***************************************************************************)
\* save() is called with a payload
SaveBegin(w) ==
    /\ CanBegin(w)
    /\ \E d \in Payloads : Enter(w, "save", d, "iter")
    /\ UNCHANGED <<ctor, self, version_cache, files, clock, path, buf, handle,
                   result, written, inval, gen>>

\* loop head of _save: the next element's path from _get_save_path, or the
\* end of the loop
SaveIter(w) ==
    /\ pc[w] = "iter"
    /\ IF idx[w] > NumElements(data[w])
       THEN /\ pc' = [pc EXCEPT ![w] = "invalidate"]
            /\ UNCHANGED <<version_cache, gen, path, result, clock>>
       ELSE \E now \in clock..MaxClock :
            LET r == _get_save_path(self[w], version_cache[w], now, files)
            IN  /\ version_cache' = [version_cache EXCEPT ![w] = r.cache]
                /\ gen' = [gen EXCEPT ![w] = @ + r.generated]
                /\ clock' = IF r.generated > 0 THEN now ELSE clock
                /\ IF r.raises
                   THEN /\ Raise(w, MustNotExist)
                        /\ UNCHANGED path
                   ELSE /\ path' = [path EXCEPT ![w] =
                                      full_key_path(self[w], data[w], idx[w], r.path)]
                        /\ pc' = [pc EXCEPT ![w] = "encode"]
                        /\ UNCHANGED result
    /\ UNCHANGED <<ctor, self, files, op, data, idx, buf, handle,
                   written, inval, files0, cache0, calls>>

\* _save_to_fs: plot.savefig(bytes_buffer, **self._save_args), then
\* self._fs.open(full_key_path, **self._fs_open_args_save); either may fail
SaveOpen(w) ==
    /\ pc[w] = "encode"
    /\ \/ /\ buf' = [buf EXCEPT ![w] = savefig(data[w].plots[idx[w]], self[w]._save_args)]
          /\ handle' = [handle EXCEPT ![w] =
                          <<[path |-> path[w], mode |-> self[w]._fs_open_args_save["mode"],
                             content |-> EmptyBytes]>>]
          /\ pc' = [pc EXCEPT ![w] = "write"]
          /\ UNCHANGED result
       \/ /\ Raise(w, BackendFailure)
          /\ UNCHANGED <<buf, handle>>
    /\ UNCHANGED <<ctor, self, version_cache, files, clock, op, data, idx, path,
                   written, inval, gen, files0, cache0, calls>>

\* _save_to_fs without the with block: a failed write leaves the handle open
SaveWrite_no_with(w) ==
    /\ pc[w] = "write"
    /\ \/ /\ files' = Put(files, handle[w][1].path, buf[w])
          /\ handle' = [handle EXCEPT ![w] = <<>>]
          /\ written' = [written EXCEPT ![w] = Append(@, handle[w][1].path)]
          /\ idx' = [idx EXCEPT ![w] = @ + 1]
          /\ pc' = [pc EXCEPT ![w] =
                      IF data[w].shape = "single" THEN "invalidate" ELSE "iter"]
          /\ UNCHANGED result
       \/ /\ files' = files
          /\ Raise(w, BackendFailure)
          /\ UNCHANGED <<written, idx, handle>>
    /\ UNCHANGED <<ctor, self, version_cache, clock, op, data, path, buf, inval,
                   gen, files0, cache0, calls>>

\* _save_to_fs: fs_file.write(bytes_buffer.getvalue()) and the exit of the
\* with block, which closes the handle on every path; a completed write is
\* stored, a failed one leaves the file as it was or stored without the bytes
SaveWrite(w) ==
    /\ pc[w] = "write"
    /\ handle' = [handle EXCEPT ![w] = <<>>]
    /\ \/ /\ files' = Put(files, handle[w][1].path, buf[w])
          /\ written' = [written EXCEPT ![w] = Append(@, handle[w][1].path)]
          /\ idx' = [idx EXCEPT ![w] = @ + 1]
          /\ pc' = [pc EXCEPT ![w] =
                      IF data[w].shape = "single" THEN "invalidate" ELSE "iter"]
          /\ UNCHANGED result
       \/ /\ \/ files' = Put(files, handle[w][1].path, handle[w][1].content)
             \/ files' = files
          /\ Raise(w, BackendFailure)
          /\ UNCHANGED <<written, idx>>
    /\ UNCHANGED <<ctor, self, version_cache, clock, op, data, path, buf, inval,
                   gen, files0, cache0, calls>>

\* _invalidate_cache handing over the path with its protocol
_invalidate_cache_with_protocol(s) == <<s._protocol \o "://">> \o s._filepath

\* MatplotlibVersionedWriter._invalidate_cache: the path handed to
\* self._fs.invalidate_cache
_invalidate_cache(s) == get_filepath_str(s._filepath, s._protocol)

\* end of _save: self._invalidate_cache(), then save() returns
SaveInvalidate(w) ==
    /\ pc[w] = "invalidate"
    /\ inval' = [inval EXCEPT ![w] = Append(@, _invalidate_cache(self[w]))]
    /\ result' = [result EXCEPT ![w] = Ok]
    /\ pc' = [pc EXCEPT ![w] = "done"]
    /\ UNCHANGED <<ctor, self, version_cache, files, clock, op, data, idx, path,
                   buf, handle, written, gen, files0, cache0, calls>>

(***************************************************************************)
(* load(), exists(), release().                                            *)
(***************************************************************************)
\* _load that returns instead of raising
_load_returns(s) == Ok

\* MatplotlibVersionedWriter._load: what load() raises
_load(s) == LoadingNotSupported

\* load(): raises, whatever the state
Load(w) ==
    /\ CanBegin(w)
    /\ Enter(w, "load", NoData, "done")
    /\ result' = [result EXCEPT ![w] = _load(self[w])]
    /\ UNCHANGED <<ctor, self, version_cache, files, clock, path, buf, handle,
                   written, inval, gen>>

\* _exists asking for the declared path with its protocol
_exists_with_protocol(s, fs) == fs_exists(fs, <<s._protocol \o "://">> \o s._filepath)

\* MatplotlibVersionedWriter._exists: the filesystem's answer for the
\* declared path
_exists(s, fs) == fs_exists(fs, get_filepath_str(s._filepath, s._protocol))

\* exists(): returns _exists()
Exists(w) ==
    /\ CanBegin(w)
    /\ Enter(w, "exists", NoData, "done")
    /\ result' = [result EXCEPT ![w] = IF _exists(self[w], files) THEN "True" ELSE "False"]
    /\ UNCHANGED <<ctor, self, version_cache, files, clock, path, buf, handle,
                   written, inval, gen>>

\* AbstractVersionedDataSet._release: the version cache after it is cleared
super_release(cache) == None

\* _release without the call of super()._release()
_release_without_super(s, cache) ==
    [cache |-> cache, invalidated |-> <<get_filepath_str(s._filepath, s._protocol)>>]

\* MatplotlibVersionedWriter._release: super()._release(), then
\* self._invalidate_cache()
_release(s, cache) ==
    [cache |-> super_release(cache), invalidated |-> <<_invalidate_cache(s)>>]

\* release(): runs _release()
Release(w) ==
    /\ CanBegin(w)
    /\ Enter(w, "release", NoData, "done")
    /\ LET r == _release(self[w], version_cache[w])
       IN  /\ version_cache' = [version_cache EXCEPT ![w] = r.cache]
           /\ inval' = [inval EXCEPT ![w] = @ \o r.invalidated]
    /\ result' = [result EXCEPT ![w] = Ok]
    /\ UNCHANGED <<ctor, self, files, clock, path, buf, handle, written, gen>>

\* the call returns to its caller: the call-local state is dropped
Return(w) ==
    /\ pc[w] = "done"
    /\ pc' = [pc EXCEPT ![w] = "idle"]
    /\ op' = [op EXCEPT ![w] = "none"]
    /\ data' = [data EXCEPT ![w] = NoData]
    /\ idx' = [idx EXCEPT ![w] = 0]
    /\ path' = [path EXCEPT ![w] = <<>>]
    /\ buf' = [buf EXCEPT ![w] = EmptyBytes]
    /\ result' = [result EXCEPT ![w] = "none"]
    /\ written' = [written EXCEPT ![w] = <<>>]
    /\ inval' = [inval EXCEPT ![w] = <<>>]
    /\ gen' = [gen EXCEPT ![w] = 0]
    /\ files0' = [files0 EXCEPT ![w] = <<>>]
    /\ cache0' = [cache0 EXCEPT ![w] = None]
    /\ UNCHANGED <<ctor, self, version_cache, files, clock, handle, calls>>

Next ==
    \/ \E w \in Writers : SaveBegin(w)
    \/ \E w \in Writers : SaveIter(w)
    \/ \E w \in Writers : SaveOpen(w)
    \/ \E w \in Writers : SaveWrite(w)
    \/ \E w \in Writers : SaveInvalidate(w)
    \/ \E w \in Writers : Load(w)
    \/ \E w \in Writers : Exists(w)
    \/ \E w \in Writers : Release(w)
    \/ \E w \in Writers : Return(w)

Spec == Init /\ [][Next]_vars

(***************************************************************************)
(* Construction over the whole range of arguments: writers of a remote and *)
(* of a local path, constructed with every choice of fs_args, credentials, *)
(* save_args and version, and then used without saving.                    *)
(***************************************************************************)
InitCtor ==
    InitWith([filepath : {FULL_PATH, <<"chart.png">>}, fs_args : FsArgsChoices,
              credentials : {Absent, Some(CREDENTIALS)}, save_args : SaveArgsChoices,
              layer : {None}, version : VersionChoices])

NextCtor ==
    \/ \E w \in Writers : Load(w)
    \/ \E w \in Writers : Exists(w)
    \/ \E w \in Writers : Release(w)
    \/ \E w \in Writers : Return(w)

SpecCtor == InitCtor /\ [][NextCtor]_vars

(***************************************************************************)
(* Concurrent use: two versioned writers of the same path, without         *)
(* multiFile, whose save() calls interleave statement by statement: no     *)
(* lock is taken between _get_save_path's existence check and the write.   *)
(***************************************************************************)
InitRace ==
    InitWith([filepath : {FULL_PATH}, fs_args : {Absent},
              credentials : {Some(CREDENTIALS)}, save_args : {Absent},
              layer : {None},
              version : {Some([load |-> None, save |-> None]),
                         Some([load |-> None, save |-> "v1"])}])

\* save() is called on a writer that is not in a call, whatever the other
\* writer is doing
SaveBeginRace(w) ==
    /\ calls < MaxCalls
    /\ pc[w] = "idle"
    /\ \E d \in Payloads : Enter(w, "save", d, "iter")
    /\ UNCHANGED <<ctor, self, version_cache, files, clock, path, buf, handle,
                   result, written, inval, gen>>

NextRace ==
    \/ \E w \in Writers : SaveBeginRace(w)
    \/ \E w \in Writers : SaveIter(w)
    \/ \E w \in Writers : SaveOpen(w)
    \/ \E w \in Writers : SaveWrite(w)
    \/ \E w \in Writers : SaveInvalidate(w)
    \/ \E w \in Writers : Return(w)

SpecRace == InitRace /\ [][NextRace]_vars

TypeOK ==
    /\ clock \in 0..MaxClock
    /\ calls \in 0..MaxCalls
    /\ \A w \in Writers :
        /\ pc[w] \in {"idle", "iter", "encode", "write", "invalidate", "done"}
        /\ op[w] \in {"none", "save", "load", "exists", "release"}
        /\ Len(handle[w]) <= 1

(***************************************************************************)
(* Vocabulary of the properties, stated from the constructor arguments and *)
(* the call-local records rather than from the writer's own operators.     *)
(***************************************************************************)
\* the declared path "s3://test_bucket/matplotlib" without its protocol
DeclaredPath == <<"test_bucket", "matplotlib">>

Versioned == ~IsNone(ctor.version)
MultiFile ==
    /\ ~IsNone(ctor.save_args)
    /\ "multiFile" \in DOMAIN Val(ctor.save_args)
    /\ Val(ctor.save_args)["multiFile"] = "True"
MergedSaveArgs == IF IsNone(ctor.save_args) THEN <<>> ELSE Val(ctor.save_args)

SuppliedFsArgs == IF IsNone(ctor.fs_args) THEN <<>> ELSE Val(ctor.fs_args)
SuppliedOpenArgs ==
    IF "open_args_save" \in DOMAIN SuppliedFsArgs THEN SuppliedFsArgs["open_args_save"] ELSE <<>>

\* the save version of writer w: explicit, else the generated one it holds
SaveVersion(w) ==
    IF Val(ctor.version).save # None THEN Val(ctor.version).save ELSE version_cache[w]
VersionedBase(v) == <<"test_bucket", v, "matplotlib">>
BasePath(w) == IF Versioned THEN VersionedBase(SaveVersion(w)) ELSE DeclaredPath

\* the file element i of payload d belongs at, under base
ElementPath(d, i, base) ==
    CASE d.shape = "single" -> base
      [] d.shape = "list" -> base \o <<ToString(i - 1) \o ".png">>
      [] d.shape = "dict" -> base \o <<d.names[i]>>
Encoding(plot) == [plot |-> plot, args |-> MergedSaveArgs]

Present(fs, p) == \E f \in DOMAIN fs : IsPrefix(p, f)
SameAt(fs1, fs2, p) ==
    (p \in DOMAIN fs1) = (p \in DOMAIN fs2) /\ (p \in DOMAIN fs1 => fs1[p] = fs2[p])
SameFiles(fs1, fs2) == \A p \in DOMAIN fs1 \cup DOMAIN fs2 : SameAt(fs1, fs2, p)

Done(w, o) == pc[w] = "done" /\ op[w] = o
InSave(w) == op[w] = "save"

(***************************************************************************)
(* C1: with versioning enabled and multiFile not set, a save() issued when *)
(* the versioned path of the writer's save version already exists raises   *)
(* the "must not exist" error and leaves every stored file unchanged; with *)
(* multiFile set the same save() raises no such error.                     *)
(***************************************************************************)
C1_Original ==
    \A w \in Writers :
        (Done(w, "save") /\ Versioned /\ Present(files0[w], VersionedBase(SaveVersion(w))))
        => IF MultiFile
           THEN result[w] # MustNotExist
           ELSE result[w] = MustNotExist /\ SameFiles(files, files0[w])

(***************************************************************************)
(* C2: whenever a save() raises the "must not exist" error, that call has  *)
(* written no bytes to the filesystem.                                     *)
(***************************************************************************)
C2_Original ==
    \A w \in Writers :
        (Done(w, "save") /\ result[w] = MustNotExist)
        => written[w] = <<>> /\ SameFiles(files, files0[w])

(***************************************************************************)
(* C3: with versioning enabled, every file one save() call writes lies     *)
(* under the versioned base path of one save version, which the call       *)
(* generates at most once.                                                 *)
(***************************************************************************)
C3_OneVersionPerSave ==
    \A w \in Writers :
        (InSave(w) /\ Versioned)
        => /\ gen[w] <= 1
           /\ \A i \in 1..Len(written[w]) :
                 /\ IsPrefix(VersionedBase(SaveVersion(w)), written[w][i])
                 /\ written[w][i] \in DOMAIN files

C3_Witness ==
    \E w \in Writers :
        Done(w, "save") /\ Versioned /\ result[w] = Ok /\ Len(written[w]) >= 2 /\ gen[w] = 1

(***************************************************************************)
(* C4: after a successful save(data) the files written by the call are     *)
(* exactly: one file at <base> for a single plot, <base>/0.png ..          *)
(* <base>/(N-1).png for a list of N plots, <base>/<key> per key of a       *)
(* mapping; each holds the encoding of its plot with the merged encoder    *)
(* arguments, and no other file has changed.                               *)
(***************************************************************************)
C4_FilesWritten ==
    \A w \in Writers :
        (Done(w, "save") /\ result[w] = Ok)
        => /\ Len(written[w]) = Len(data[w].plots)
           /\ \A i \in 1..Len(data[w].plots) :
                 /\ written[w][i] = ElementPath(data[w], i, BasePath(w))
                 /\ written[w][i] \in DOMAIN files
                 /\ files[written[w][i]] = Encoding(data[w].plots[i])
           /\ \A p \in DOMAIN files \cup DOMAIN files0[w] :
                 (\A i \in 1..Len(written[w]) : written[w][i] # p)
                 => SameAt(files, files0[w], p)

C4_Witness ==
    \E w \in Writers :
        /\ Done(w, "save") /\ result[w] = Ok
        /\ data[w].shape = "dict" /\ Len(written[w]) = 2
        /\ MergedSaveArgs # <<>>

(***************************************************************************)
(* C5 as stated: exists() is true after any successful save() to the       *)
(* declared path, for every payload.                                       *)
(***************************************************************************)
C5_Original ==
    \A w \in Writers :
        /\ (Done(w, "save") /\ result[w] = Ok) => Present(files, DeclaredPath)
        /\ Done(w, "exists") => result[w] = (IF Present(files, DeclaredPath) THEN "True" ELSE "False")

(***************************************************************************)
(* C5 amended: exists() reports the presence of the unversioned declared   *)
(* path: false while nothing is stored at or under it, and true after a    *)
(* successful save() by a writer without versioning of a payload that      *)
(* holds at least one plot.                                                *)
(***************************************************************************)
C5_ExistsAfterSave ==
    \A w \in Writers :
        /\ (Done(w, "save") /\ result[w] = Ok /\ ~Versioned /\ Len(data[w].plots) >= 1)
           => Present(files, DeclaredPath)
        /\ Done(w, "exists") => result[w] = (IF Present(files, DeclaredPath) THEN "True" ELSE "False")
        /\ (Done(w, "exists") /\ files = <<>>) => result[w] = "False"

C5_Witness ==
    \E w \in Writers :
        Done(w, "exists") /\ result[w] = "True" /\ ~Versioned /\ calls = 2

(***************************************************************************)
(* C6: load() raises the "Loading not supported" error in every state and  *)
(* changes neither the stored files nor the writer's state.                *)
(***************************************************************************)
C6_LoadAlwaysFails ==
    \A w \in Writers :
        Done(w, "load")
        => /\ result[w] = LoadingNotSupported
           /\ SameFiles(files, files0[w])
           /\ version_cache[w] = cache0[w]
           /\ written[w] = <<>> /\ inval[w] = <<>> /\ handle[w] = <<>>

C6_Witness ==
    \E w \in Writers :
        Done(w, "load") /\ files # <<>> /\ version_cache[w] # None

C8_InvalidateOnceAtEnd ==
    \A w \in Writers :
        InSave(w)
        => /\ (pc[w] = "done" /\ result[w] = Ok) => inval[w] = <<DeclaredPath>>
           /\ inval[w] # <<>>
              => /\ inval[w] = <<DeclaredPath>>
                 /\ pc[w] = "done" /\ result[w] = Ok
                 /\ Len(written[w]) = Len(data[w].plots)
                 /\ handle[w] = <<>>

C8_Witness ==
    \E w \in Writers :
        Done(w, "save") /\ result[w] = Ok /\ Versioned /\ Len(written[w]) = 2

(***************************************************************************)
(* C9: after construction the merged encoder arguments are the empty       *)
(* defaults overlaid by the supplied save_args; the open arguments for     *)
(* save are fs_args' nested open_args_save with mode "wb" only when no     *)
(* mode is supplied; open_args_save is not among the filesystem            *)
(* constructor arguments.                                                  *)
(***************************************************************************)
C9_Construction ==
    \A w \in Writers :
        /\ DOMAIN self[w]._save_args = DOMAIN MergedSaveArgs
        /\ \A k \in DOMAIN MergedSaveArgs : self[w]._save_args[k] = MergedSaveArgs[k]
        /\ DOMAIN self[w]._fs_open_args_save = DOMAIN SuppliedOpenArgs \cup {"mode"}
        /\ \A k \in DOMAIN SuppliedOpenArgs :
              self[w]._fs_open_args_save[k] = SuppliedOpenArgs[k]
        /\ "mode" \notin DOMAIN SuppliedOpenArgs => self[w]._fs_open_args_save["mode"] = "wb"
        /\ "open_args_save" \notin DOMAIN self[w]._fs_args
        /\ "open_args_save" \notin DOMAIN self[w]._fs.kwargs
        /\ \A k \in DOMAIN SuppliedFsArgs \ {"open_args_save"} :
              k \in DOMAIN self[w]._fs.kwargs /\ self[w]._fs.kwargs[k] = SuppliedFsArgs[k]

C9_Witness ==
    /\ "mode" \in DOMAIN SuppliedOpenArgs
    /\ SuppliedOpenArgs["mode"] = "w"
    /\ MergedSaveArgs # <<>>
    /\ \E w \in Writers : Done(w, "release") /\ self[w]._fs_open_args_save["mode"] = "w"

(***************************************************************************)
(* C10: when save() of a list or mapping fails at element k, the error     *)
(* surfaces from save(), the files of the elements before k remain         *)
(* stored, no element after k is written and no write handle is left open. *)
(***************************************************************************)
C10_PartialSave ==
    \A w \in Writers :
        (Done(w, "save") /\ result[w] = BackendFailure /\ data[w].shape \in {"list", "dict"})
        => /\ handle[w] = <<>>
           /\ idx[w] \in 1..Len(data[w].plots)
           /\ Len(written[w]) = idx[w] - 1
           /\ \A i \in 1..(idx[w] - 1) :
                 /\ written[w][i] = ElementPath(data[w], i, BasePath(w))
                 /\ written[w][i] \in DOMAIN files
                 /\ files[written[w][i]] = Encoding(data[w].plots[i])
           /\ \A i \in (idx[w] + 1)..Len(data[w].plots) :
                 SameAt(files, files0[w], ElementPath(data[w], i, BasePath(w)))

C10_Witness ==
    \E w \in Writers :
        /\ Done(w, "save") /\ result[w] = BackendFailure
        /\ data[w].shape = "list" /\ idx[w] = 2 /\ Len(data[w].plots) = 2
        /\ Len(written[w]) = 1

(***************************************************************************)
(* C11: the versioned existence check and the write are not atomic.  Two   *)
(* writers with the same declared path and the same save version whose     *)
(* save() calls run concurrently on a versioned path that does not exist   *)
(* yet can both pass the check and both write: neither gets the "must not  *)
(* exist" error and the later write replaces the earlier one.  The check   *)
(* only guards the start of a write: a save that wrote began before the    *)
(* versioned path existed, the error is raised only when the path exists,  *)
(* and of two saves that stored the same path the file holds the bytes of  *)
(* one.                                                                    *)
(***************************************************************************)
C11_CheckThenWrite ==
    \A w \in Writers :
        /\ (InSave(w) /\ Versioned /\ ~MultiFile /\ Len(written[w]) >= 1)
           => ~Present(files0[w], VersionedBase(SaveVersion(w)))
        /\ (Done(w, "save") /\ result[w] = MustNotExist)
           => Present(files, VersionedBase(SaveVersion(w)))
        /\ \A v \in Writers \ {w} :
              (Done(w, "save") /\ Done(v, "save") /\ result[w] = Ok /\ result[v] = Ok)
              => \A i \in 1..Len(written[w]) : \A j \in 1..Len(written[v]) :
                    written[w][i] = written[v][j]
                    => /\ written[w][i] \in DOMAIN files
                       /\ files[written[w][i]] \in {Encoding(data[w].plots[i]),
                                                    Encoding(data[v].plots[j])}

\* both saves passed the check and wrote the same versioned path; each
\* returned normally and the bytes of one of them are gone
C11_Witness ==
    \E w \in Writers : \E v \in Writers \ {w} :
        /\ Versioned /\ ~MultiFile
        /\ Done(w, "save") /\ Done(v, "save")
        /\ result[w] = Ok /\ result[v] = Ok
        /\ SaveVersion(w) = SaveVersion(v)
        /\ written[w] = <<VersionedBase(SaveVersion(w))>>
        /\ written[v] = written[w]
        /\ ~Present(files0[w], written[w][1]) /\ ~Present(files0[v], written[v][1])
        /\ files[written[w][1]] = Encoding(data[v].plots[1])
        /\ files[written[w][1]] # Encoding(data[w].plots[1])

====
